---- MODULE Spec2Model ----
(***************************************************************************)
(* Model of the shred atom model (js/model/NumberAtom.js) and of the       *)
(* isotope electron cloud's radius mapping (IsotopeElectronCloudView).     *)
(*                                                                         *)
(* NumberAtom holds three axon NumberProperty objects (the base counts),   *)
(* three DerivedProperty objects and one Emitter.  The axon semantics used *)
(* here: Property.set(v) does nothing when v equals the current value;     *)
(* otherwise it stores v and then calls the property's listeners           *)
(* synchronously in the order in which they were registered.  Each         *)
(* DerivedProperty registers its recompute listener on its dependencies in *)
(* its constructor, hence before any listener registered from outside.     *)
(* `assert` is a global that is undefined in builds without assertions.    *)
(***************************************************************************)
EXTENDS Integers, Sequences, FiniteSets, TLC

\* ------------------------------------------------------------------ bounds
MaxCount == 1
MaxElectronInput == 12
MaxScale == 2

CountValues == (0 - 1)..MaxCount

VARIABLES
  assertionsEnabled,  \* the build: TRUE when the global `assert` is defined
  atom,               \* the values of the six properties of the NumberAtom
  disposeLog,         \* the members torn down so far, in order (<<>>: live)
  events,             \* listener notifications delivered by the last operation
  lastCall,           \* the last operation called, its arguments and outcome
  shell,              \* the last call of getElectronShellDiameter
  cloud,              \* the radius and fill of the IsotopeElectronCloudView
  cloudView,          \* the cloud view's transform scale and the properties it is linked to
  display,            \* ParticleCountDisplay: display counts, node arrays, layer children
  cells,              \* ExpandedPeriodicTableNode: the base colour of each button
  highlightedButton,  \* ExpandedPeriodicTableNode: index of the button, 0 for null
  mutatingListener    \* the counts a listener added to atomUpdated sets, if one is added

vars == <<assertionsEnabled, atom, disposeLog, events, lastCall, shell, cloud,
          cloudView, display, cells, highlightedButton, mutatingListener>>

\* The state of the views and of the listeners added from outside.
viewVars == <<cloudView, display, cells, highlightedButton, mutatingListener>>

\* ------------------------------------------------------- NumberAtom: state
chargeDerivation(protonCount, electronCount) == protonCount - electronCount

massNumberDerivation(protonCount, neutronCount) == protonCount + neutronCount

particleCountDerivation(protonCount, neutronCount, electronCount) ==
  protonCount + neutronCount + electronCount

\* The constructor: three base properties with the option values, the three
\* derived properties computed from them.
NumberAtom(p, n, e) ==
  [ protonCount   |-> p,
    neutronCount  |-> n,
    electronCount |-> e,
    charge        |-> chargeDerivation(p, e),
    massNumber    |-> massNumberDerivation(p, n),
    particleCount |-> particleCountDerivation(p, n, e) ]

\* The ES5 getters protonCount, neutronCount, electronCount.
BaseCounts(a) == <<a.protonCount, a.neutronCount, a.electronCount>>

Live == disposeLog = <<>>

\* --------------------------------------------- NumberAtom: notifications
\* A notification: the property (or emitter) whose listeners run, and the
\* values of all six properties a listener reads at that moment.
Notify(st, name) ==
  [st EXCEPT !.log = Append(st.log, [on |-> name, seen |-> st.atom])]

\* Property.set of a base property: the stored value changes first.
Write(st, field, v) == [st EXCEPT !.atom[field] = v]

\* DerivedProperty recompute: set the derived value, notify its listeners
\* when it changed.
SetDerived(st, field, v) ==
  IF st.atom[field] = v THEN st ELSE Notify(Write(st, field, v), field)

RecomputeCharge(st) ==
  SetDerived(st, "charge",
             chargeDerivation(st.atom.protonCount, st.atom.electronCount))

RecomputeMassNumber(st) ==
  SetDerived(st, "massNumber",
             massNumberDerivation(st.atom.protonCount, st.atom.neutronCount))

RecomputeParticleCount(st) ==
  SetDerived(st, "particleCount",
             particleCountDerivation(st.atom.protonCount, st.atom.neutronCount,
                                     st.atom.electronCount))

\* protonCountProperty.set: listeners in registration order are charge,
\* massNumber, particleCount, then the listeners linked from outside.
protonCountProperty_set(st, v) ==
  IF st.atom.protonCount = v THEN st
  ELSE Notify(RecomputeParticleCount(RecomputeMassNumber(RecomputeCharge(
         Write(st, "protonCount", v)))), "protonCount")

\* electronCountProperty.set with chargeProperty not depending on it.
electronCountProperty_set_NoCharge(st, v) ==
  IF st.atom.electronCount = v THEN st
  ELSE Notify(RecomputeParticleCount(Write(st, "electronCount", v)), "electronCount")

\* electronCountProperty.set: charge, particleCount, then outside listeners.
electronCountProperty_set(st, v) ==
  IF st.atom.electronCount = v THEN st
  ELSE Notify(RecomputeParticleCount(RecomputeCharge(
         Write(st, "electronCount", v))), "electronCount")

\* neutronCountProperty.set: massNumber, particleCount, then outside listeners.
neutronCountProperty_set(st, v) ==
  IF st.atom.neutronCount = v THEN st
  ELSE Notify(RecomputeParticleCount(RecomputeMassNumber(
         Write(st, "neutronCount", v))), "neutronCount")

atomUpdated_emit(st) == Notify(st, "atomUpdated")

\* ------------------------------------------------ NumberAtom: operations
\* setSubAtomicParticleCount with the emit placed before the last set.
setSubAtomicParticleCount_EmitEarly(a, protonCount, neutronCount, electronCount) ==
  neutronCountProperty_set(
    atomUpdated_emit(
      electronCountProperty_set(
        protonCountProperty_set([atom |-> a, log |-> <<>>, threw |-> FALSE],
                                protonCount),
        electronCount)),
    neutronCount)

\* setSubAtomicParticleCount on a live atom: protons, then electrons, then
\* neutrons, then one emit.  The result is the atom and the notifications
\* delivered on the way, in order.
setSubAtomicParticleCount(a, protonCount, neutronCount, electronCount) ==
  atomUpdated_emit(
    neutronCountProperty_set(
      electronCountProperty_set(
        protonCountProperty_set([atom |-> a, log |-> <<>>, threw |-> FALSE],
                                protonCount),
        electronCount),
      neutronCount))

\* Property.set on a disposed property: its listeners are gone.  The value is
\* stored; notifying through the disposed emitter trips an assertion in a
\* build that has assertions, and does nothing otherwise.
disposedProperty_set(st, field, v, asserts) ==
  IF st.threw \/ st.atom[field] = v THEN st
  ELSE [Write(st, field, v) EXCEPT !.threw = asserts]

\* Emitter.emit on a disposed emitter: an assertion, or nothing.
disposedEmitter_emit(st, asserts) ==
  IF st.threw THEN st ELSE [st EXCEPT !.threw = asserts]

\* setSubAtomicParticleCount has no guard of its own: after dispose the same
\* four statements run against the disposed members.
setSubAtomicParticleCountDisposed(a, protonCount, neutronCount, electronCount, asserts) ==
  disposedEmitter_emit(
    disposedProperty_set(
      disposedProperty_set(
        disposedProperty_set([atom |-> a, log |-> <<>>, threw |-> FALSE],
                             "protonCount", protonCount, asserts),
        "electronCount", electronCount, asserts),
      "neutronCount", neutronCount, asserts),
    asserts)

\* dispose with the base counts torn down before the derived quantities.
dispose_BaseFirst ==
  << "protonCount", "neutronCount", "electronCount",
     "charge", "massNumber", "particleCount",
     "atomUpdated" >>

\* dispose: the members in the order in which they are torn down.
dispose ==
  << "charge", "massNumber", "particleCount",
     "protonCount", "neutronCount", "electronCount",
     "atomUpdated" >>

\* The dependencies each DerivedProperty is constructed with.
Dependencies(derived) ==
  CASE derived = "charge"        -> {"protonCount", "electronCount"}
    [] derived = "massNumber"    -> {"protonCount", "neutronCount"}
    [] derived = "particleCount" -> {"protonCount", "neutronCount", "electronCount"}

DerivedNames == {"charge", "massNumber", "particleCount"}

BaseNames == {"protonCount", "neutronCount", "electronCount"}

Observables == BaseNames \cup DerivedNames \cup {"atomUpdated"}

\* equals comparing the atomic number and the mass number only.
equals_NucleusOnly(this, otherAtom) ==
  /\ this.protonCount = otherAtom.protonCount
  /\ this.protonCount + this.neutronCount = otherAtom.protonCount + otherAtom.neutronCount

equals(this, otherAtom) ==
  /\ this.protonCount = otherAtom.protonCount
  /\ this.neutronCount = otherAtom.neutronCount
  /\ this.electronCount = otherAtom.electronCount

NumAtomUpdated(log) == Cardinality({i \in DOMAIN log : log[i].on = "atomUpdated"})

Outcome(threw) == IF threw THEN "threw" ELSE "returned"

\* ------------------------------------------------------------- actions
CallSetSubAtomicParticleCount(p, n, e) ==
  /\ LET st == IF Live
               THEN setSubAtomicParticleCount(atom, p, n, e)
               ELSE setSubAtomicParticleCountDisposed(atom, p, n, e, assertionsEnabled)
     IN /\ atom' = st.atom
        /\ events' = st.log
        /\ lastCall' = [op |-> "setSubAtomicParticleCount", args |-> <<p, n, e>>,
                        outcome |-> Outcome(st.threw), result |-> <<>>]
  /\ UNCHANGED <<assertionsEnabled, disposeLog, shell, cloud>>
  /\ UNCHANGED viewVars

\* dispose is called once: it sends no notification and leaves the values.
CallDispose ==
  /\ Live
  /\ disposeLog' = dispose
  /\ events' = <<>>
  /\ lastCall' = [op |-> "dispose", args |-> <<>>, outcome |-> "returned", result |-> <<>>]
  /\ UNCHANGED <<assertionsEnabled, atom, shell, cloud>>
  /\ UNCHANGED viewVars

\* Property.link (a base or derived property: the listener is called back at
\* once with the current value) or Emitter.addListener (atomUpdated: no call
\* back).  On a disposed member: an assertion, or a silent registration.
CallLink(target) ==
  LET threw == ~Live /\ assertionsEnabled
  IN /\ events' = IF threw \/ target = "atomUpdated" THEN <<>>
                  ELSE <<[on |-> target, seen |-> atom]>>
     /\ lastCall' = [op |-> "link", args |-> <<target>>,
                     outcome |-> Outcome(threw), result |-> <<>>]
     /\ UNCHANGED <<assertionsEnabled, atom, disposeLog, shell, cloud>>
     /\ UNCHANGED viewVars

CallEquals(p, n, e) ==
  /\ events' = <<>>
  /\ lastCall' = [op |-> "equals", args |-> <<p, n, e>>, outcome |-> "returned",
                  result |-> <<equals(atom, NumberAtom(p, n, e))>>]
  /\ UNCHANGED <<assertionsEnabled, atom, disposeLog, shell, cloud>>
  /\ UNCHANGED viewVars

\* ------------------------------------- IsotopeElectronCloudView: radius
\* Radii are kept in tenths of a picometre so that 134 * 0.75 = 100.5 and
\* 90 * 0.97 = 87.3 are integers; results are exact fractions num/den with
\* den > 0 (IEEE rounding is not modelled).
MAX_ELECTRONS == 10

minChangedRadius == 40

maxChangedRadius == 55

\* Number.MAX_VALUE: a number above every key and every radius of the table.
NumberMaxValue == 2147483647

Rat(num, den) == [num |-> num, den |-> den]

RatEq(x, y) == x.num * y.den = y.num * x.den

RatLess(x, y) == x.num * y.den < y.num * x.den

\* mapElectronCountToRadius, by key, in tenths of a picometre.
mapElectronCountToRadius ==
  [k \in 1..10 |->
     CASE k = 1 -> 380  [] k = 2 -> 320  [] k = 3 -> 1005 [] k = 4 -> 873
       [] k = 5 -> 820  [] k = 6 -> 770  [] k = 7 -> 750  [] k = 8 -> 730
       [] k = 9 -> 710  [] k = 10 -> 690]

\* A JavaScript value in the min/max scan: a number, or a string of decimal
\* digits (a property key) together with the number it converts to.
JsNumber(x) == [isString |-> FALSE, digits |-> <<>>, num |-> x]

JsKey(k) ==
  [isString |-> TRUE,
   digits |-> IF k < 10 THEN <<k>> ELSE <<k \div 10, k % 10>>,
   num |-> k]

\* for ( const radius in mapElectronCountToRadius ): the loop variable takes
\* the object's KEYS, as strings, integer keys in ascending order.
ForInKeys == [i \in 1..10 |-> JsKey(i)]

\* String comparison: by code units, a proper prefix is the smaller.
RECURSIVE LexLess(_, _)
LexLess(s, t) ==
  IF t = <<>> THEN FALSE
  ELSE IF s = <<>> THEN TRUE
  ELSE IF Head(s) # Head(t) THEN Head(s) < Head(t)
  ELSE LexLess(Tail(s), Tail(t))

\* The relational operator <: two strings compare as strings, anything else
\* is converted to numbers.
JsLess(a, b) ==
  IF a.isString /\ b.isString THEN LexLess(a.digits, b.digits) ELSE a.num < b.num

JsGreater(a, b) == JsLess(b, a)

\* The scan that determines minShellRadius and maxShellRadius.
RECURSIVE ScanShellRadii(_, _, _)
ScanShellRadii(i, minShellRadius, maxShellRadius) ==
  IF i > Len(ForInKeys) THEN [min |-> minShellRadius, max |-> maxShellRadius]
  ELSE LET radius == ForInKeys[i]
       IN ScanShellRadii(i + 1,
            IF JsLess(radius, minShellRadius) THEN radius ELSE minShellRadius,
            IF JsGreater(radius, maxShellRadius) THEN radius ELSE maxShellRadius)

minShellRadius == ScanShellRadii(1, JsNumber(NumberMaxValue), JsNumber(0)).min

maxShellRadius == ScanShellRadii(1, JsNumber(NumberMaxValue), JsNumber(0)).max

\* dot's LinearFunction( a1, a2, b1, b2 )( a3 ) =
\* ( b2 - b1 ) / ( a2 - a1 ) * ( a3 - a1 ) + b1; the subtractions convert
\* string operands to numbers.  a1, a2, a3 in tenths.
LinearFunction(a1, a2, b1, b2, a3) ==
  Rat((b2 - b1) * (a3 - a1) + b1 * (a2 - a1), a2 - a1)

reduceRadiusRange(value) ==
  LinearFunction(10 * minShellRadius.num, 10 * maxShellRadius.num,
                 minChangedRadius, maxChangedRadius, value)

\* getElectronShellDiameter: `in` is true of the keys 1..10; otherwise the
\* assertion (only in a build that has assertions), then return 0.
getElectronShellDiameter(numElectrons, asserts) ==
  IF numElectrons \in DOMAIN mapElectronCountToRadius
  THEN [outcome |-> "returned",
        value |-> reduceRadiusRange(mapElectronCountToRadius[numElectrons])]
  ELSE IF asserts /\ ~(numElectrons <= MAX_ELECTRONS)
       THEN [outcome |-> "threw", value |-> Rat(0, 1)]
       ELSE [outcome |-> "returned", value |-> Rat(0, 1)]

\* updateNode without the special case for 0 electrons.
updateNode_NoZeroCase(self, numElectrons, scale, asserts) ==
  LET d == getElectronShellDiameter(numElectrons, asserts)
  IN IF d.outcome = "threw"
     THEN [self EXCEPT !.numElectrons = <<numElectrons>>, !.outcome = "threw"]
     ELSE [radius |-> Rat(d.value.num * scale * 12, d.value.den * 20),
           fill |-> "gradient",
           numElectrons |-> <<numElectrons>>, outcome |-> "returned"]

\* updateNode: 1E-5 and 'transparent' for 0; otherwise
\* modelToViewDeltaX( diameter / 2 ) * 1.2 with a gradient fill.  scale is the
\* model-view transform's x scale.
updateNode(self, numElectrons, scale, asserts) ==
  IF numElectrons = 0
  THEN [radius |-> Rat(1, 100000), fill |-> "transparent",
        numElectrons |-> <<numElectrons>>, outcome |-> "returned"]
  ELSE LET d == getElectronShellDiameter(numElectrons, asserts)
       IN IF d.outcome = "threw"
          THEN [self EXCEPT !.numElectrons = <<numElectrons>>, !.outcome = "threw"]
          ELSE [radius |-> Rat(d.value.num * scale * 12, d.value.den * 20),
                fill |-> "gradient",
                numElectrons |-> <<numElectrons>>, outcome |-> "returned"]

\* Circle.call( this, 1, options ): the dummy radius before the first update.
NewCloud == [radius |-> Rat(1, 1), fill |-> "none", numElectrons |-> <<>>,
             outcome |-> "returned"]

NoShellCall == [numElectrons |-> <<>>, outcome |-> "returned", value |-> Rat(0, 1)]

CallGetElectronShellDiameter(numElectrons) ==
  /\ shell' = [numElectrons |-> <<numElectrons>>]
                @@ getElectronShellDiameter(numElectrons, assertionsEnabled)
  /\ UNCHANGED <<assertionsEnabled, atom, disposeLog, events, lastCall, cloud>>
  /\ UNCHANGED viewVars

CallUpdateNode(numElectrons, scale) ==
  /\ cloud' = updateNode(cloud, numElectrons, scale, assertionsEnabled)
  /\ UNCHANGED <<assertionsEnabled, atom, disposeLog, events, lastCall, shell>>
  /\ UNCHANGED viewVars

\* ------------------------------------------------------ specifications
\* No view has been constructed on the atom.
NoViews ==
  /\ cloudView = [scale |-> 1, linked |-> {}, disposed |-> FALSE]
  /\ display = [protons |-> <<>>, neutrons |-> <<>>,
                protonDisplayCount |-> 0, neutronDisplayCount |-> 0,
                particleLayer |-> {}]
  /\ cells = <<>>
  /\ highlightedButton = 0
  /\ mutatingListener = <<>>

Init ==
  /\ assertionsEnabled \in BOOLEAN
  /\ \E p \in CountValues, n \in CountValues, e \in CountValues :
       /\ atom = NumberAtom(p, n, e)
       /\ lastCall = [op |-> "new NumberAtom", args |-> <<p, n, e>>,
                      outcome |-> "returned", result |-> <<>>]
  /\ disposeLog = <<>>
  /\ events = <<>>
  /\ shell = NoShellCall
  /\ cloud = NewCloud
  /\ NoViews

Next ==
  \/ \E p \in CountValues, n \in CountValues, e \in CountValues :
       CallSetSubAtomicParticleCount(p, n, e)
  \/ CallDispose
  \/ \E target \in Observables : CallLink(target)

Spec == Init /\ [][Next]_vars

\* equals on its own: every pair of atoms over the count values.
NextEquals ==
  \E p \in CountValues, n \in CountValues, e \in CountValues : CallEquals(p, n, e)

SpecEquals == Init /\ [][NextEquals]_vars

\* The radius mapping on its own: the build and the inputs are drawn freely.
InitRadius ==
  /\ assertionsEnabled \in BOOLEAN
  /\ atom = NumberAtom(0, 0, 0)
  /\ lastCall = [op |-> "new NumberAtom", args |-> <<0, 0, 0>>,
                 outcome |-> "returned", result |-> <<>>]
  /\ disposeLog = <<>>
  /\ events = <<>>
  /\ shell = NoShellCall
  /\ cloud = NewCloud
  /\ NoViews

NextRadius ==
  \/ \E numElectrons \in 0..MaxElectronInput :
       CallGetElectronShellDiameter(numElectrons)
  \/ \E numElectrons \in 0..MaxElectronInput, scale \in 1..MaxScale :
       CallUpdateNode(numElectrons, scale)

SpecRadius == InitRadius /\ [][NextRadius]_vars

\* ------------------------------------------- IsotopeElectronCloudView
\* The counts the views are driven with.
MaxViewCount == 2

ViewCounts == 0..MaxViewCount

\* The constructor: Circle with radius 1, updateNode with the electron
\* count, then protonCountProperty.link( updateNode ); link registers the
\* listener and calls it back at once with the property's value.
IsotopeElectronCloudView(a, scale, asserts) ==
  [cloud |-> updateNode(updateNode(NewCloud, a.electronCount, scale, asserts),
                        a.protonCount, scale, asserts),
   cloudView |-> [scale |-> scale, linked |-> {"protonCount"},
                  disposed |-> FALSE]]

\* disposeIsotopeElectronCloudView unlinking from electronCountProperty.
disposeIsotopeElectronCloudView_OtherProperty(view) ==
  [view EXCEPT !.linked = @ \ {"electronCount"}, !.disposed = TRUE]

\* disposeIsotopeElectronCloudView: protonCountProperty.unlink( updateNode ).
disposeIsotopeElectronCloudView(view) ==
  [view EXCEPT !.linked = @ \ {"protonCount"}, !.disposed = TRUE]

\* The cloud after the notifications of log from index i on: updateNode runs,
\* with the property's new value, for each property it is linked to.
RECURSIVE DeliverToCloud(_, _, _, _, _)
DeliverToCloud(self, view, log, i, asserts) ==
  IF i > Len(log) THEN self
  ELSE DeliverToCloud(
         IF log[i].on \in view.linked
         THEN updateNode(self, log[i].seen[log[i].on], view.scale, asserts)
         ELSE self,
         view, log, i + 1, asserts)

\* ------------------------------------------------- ParticleCountDisplay
\* A ParticleNode of the display: its type and the slot it is laid out in.
ParticleNode(particleType, index) == [particleType |-> particleType, index |-> index]

\* The next unused slot of an array of nodes (slots of removed nodes are
\* free again).
NewSlot(array) == Len(array)

\* incrementParticleCount: array is 0-based in the source.
incrementParticleCount(array, currentQuantity, particleType, particleLayer) ==
  LET newIndex == currentQuantity
      grown == IF newIndex = Len(array)
               THEN Append(array, ParticleNode(particleType, NewSlot(array)))
               ELSE array
  IN [array |-> grown,
      particleLayer |-> particleLayer \cup {grown[newIndex + 1]},
      currentQuantity |-> currentQuantity + 1]

\* decrementParticleCount that leaves the node in the particle layer.
decrementParticleCount_KeepChild(array, currentQuantity, particleLayer) ==
  LET quantity == currentQuantity - 1
  IN [array |-> SubSeq(array, 1, quantity) \o SubSeq(array, quantity + 2, Len(array)),
      particleLayer |-> particleLayer,
      currentQuantity |-> quantity]

\* decrementParticleCount: removeChild, then splice( currentQuantity, 1 ).
decrementParticleCount(array, currentQuantity, particleLayer) ==
  LET quantity == currentQuantity - 1
  IN [array |-> SubSeq(array, 1, quantity) \o SubSeq(array, quantity + 2, Len(array)),
      particleLayer |-> particleLayer \ {array[quantity + 1]},
      currentQuantity |-> quantity]

\* The two while loops of updateParticles for the protons.
RECURSIVE updateProtons(_, _)
updateProtons(d, a) ==
  IF a.protonCount > d.protonDisplayCount
  THEN LET r == incrementParticleCount(d.protons, d.protonDisplayCount,
                                       "proton", d.particleLayer)
       IN updateProtons([d EXCEPT !.protons = r.array,
                                  !.protonDisplayCount = r.currentQuantity,
                                  !.particleLayer = r.particleLayer], a)
  ELSE IF a.protonCount < d.protonDisplayCount
  THEN LET r == decrementParticleCount(d.protons, d.protonDisplayCount,
                                       d.particleLayer)
       IN updateProtons([d EXCEPT !.protons = r.array,
                                  !.protonDisplayCount = r.currentQuantity,
                                  !.particleLayer = r.particleLayer], a)
  ELSE d

\* The two while loops of updateParticles for the neutrons.
RECURSIVE updateNeutrons(_, _)
updateNeutrons(d, a) ==
  IF a.neutronCount > d.neutronDisplayCount
  THEN LET r == incrementParticleCount(d.neutrons, d.neutronDisplayCount,
                                       "neutron", d.particleLayer)
       IN updateNeutrons([d EXCEPT !.neutrons = r.array,
                                   !.neutronDisplayCount = r.currentQuantity,
                                   !.particleLayer = r.particleLayer], a)
  ELSE IF a.neutronCount < d.neutronDisplayCount
  THEN LET r == decrementParticleCount(d.neutrons, d.neutronDisplayCount,
                                       d.particleLayer)
       IN updateNeutrons([d EXCEPT !.neutrons = r.array,
                                   !.neutronDisplayCount = r.currentQuantity,
                                   !.particleLayer = r.particleLayer], a)
  ELSE d

\* updateParticles reads the atom's proton and neutron counts as they are
\* when it runs.
updateParticles(d, a) == updateNeutrons(updateProtons(d, a), a)

NewDisplay ==
  [protons |-> <<>>, neutrons |-> <<>>,
   protonDisplayCount |-> 0, neutronDisplayCount |-> 0, particleLayer |-> {}]

\* The constructor: particleCountProperty.link (an immediate call of the
\* listener), then the initial update.
ParticleCountDisplay(a) == updateParticles(updateParticles(NewDisplay, a), a)

\* The display after the notifications of log from index i on: the listener
\* is linked to particleCountProperty only.
RECURSIVE DeliverToDisplay(_, _, _)
DeliverToDisplay(d, log, i) ==
  IF i > Len(log) THEN d
  ELSE DeliverToDisplay(
         IF log[i].on = "particleCount" THEN updateParticles(d, log[i].seen) ELSE d,
         log, i + 1)

\* ------------------------------------------- the atom with views on it
\* A base count's Property.set called directly.
basePropertySet(a, name, v) ==
  LET st == [atom |-> a, log |-> <<>>, threw |-> FALSE]
  IN CASE name = "protonCount" -> protonCountProperty_set(st, v)
       [] name = "neutronCount" -> neutronCountProperty_set(st, v)
       [] name = "electronCount" -> electronCountProperty_set(st, v)

\* What an operation on the atom does to the atom and to the views that
\* listen to it.
Delivered(st) ==
  LET done == st
  IN /\ atom' = done.atom
     /\ events' = done.log
     /\ cloud' = DeliverToCloud(cloud, cloudView, done.log, 1, assertionsEnabled)
     /\ display' = DeliverToDisplay(display, done.log, 1)

ViewSetSubAtomicParticleCount(p, n, e) ==
  /\ Delivered(setSubAtomicParticleCount(atom, p, n, e))
  /\ lastCall' = [op |-> "setSubAtomicParticleCount", args |-> <<p, n, e>>,
                  outcome |-> "returned", result |-> <<>>,
                  before |-> BaseCounts(atom)]
  /\ UNCHANGED <<assertionsEnabled, disposeLog, shell, cloudView, cells,
                 highlightedButton, mutatingListener>>

ViewSetBaseCount(name, v) ==
  /\ Delivered(basePropertySet(atom, name, v))
  /\ lastCall' = [op |-> "set", args |-> <<name, v>>,
                  outcome |-> "returned", result |-> <<>>,
                  before |-> BaseCounts(atom)]
  /\ UNCHANGED <<assertionsEnabled, disposeLog, shell, cloudView, cells,
                 highlightedButton, mutatingListener>>

\* IsotopeElectronCloudView.dispose(), once.
CallDisposeCloudView ==
  /\ ~cloudView.disposed
  /\ cloudView' = disposeIsotopeElectronCloudView(cloudView)
  /\ events' = <<>>
  /\ lastCall' = [op |-> "IsotopeElectronCloudView.dispose", args |-> <<>>,
                  outcome |-> "returned", result |-> <<>>]
  /\ UNCHANGED <<assertionsEnabled, atom, disposeLog, shell, cloud, display,
                 cells, highlightedButton, mutatingListener>>

\* The x scale of the model-view transform the cloud view is constructed
\* with (the views of one screen share one transform).
ViewScale == MaxScale

\* An atom with an IsotopeElectronCloudView and a ParticleCountDisplay
\* constructed on it.  The only assertion on the views' paths is that of
\* getElectronShellDiameter above MAX_ELECTRONS, which these counts do not
\* reach: the build is taken without assertions.
InitViews ==
  /\ assertionsEnabled = FALSE
  /\ \E p \in ViewCounts, n \in ViewCounts, e \in ViewCounts :
       /\ atom = NumberAtom(p, n, e)
       /\ lastCall = [op |-> "new NumberAtom", args |-> <<p, n, e>>,
                      outcome |-> "returned", result |-> <<>>]
       /\ cloud = IsotopeElectronCloudView(atom, ViewScale, assertionsEnabled).cloud
       /\ cloudView =
            IsotopeElectronCloudView(atom, ViewScale, assertionsEnabled).cloudView
       /\ display = ParticleCountDisplay(atom)
  /\ disposeLog = <<>>
  /\ events = <<>>
  /\ shell = NoShellCall
  /\ cells = <<>>
  /\ highlightedButton = 0
  /\ mutatingListener = <<>>

NextViews ==
  \/ \E p \in ViewCounts, n \in ViewCounts, e \in ViewCounts :
       ViewSetSubAtomicParticleCount(p, n, e)
  \/ \E name \in BaseNames, v \in ViewCounts : ViewSetBaseCount(name, v)
  \/ CallDisposeCloudView

SpecViews == InitViews /\ [][NextViews]_vars

\* ------------------------------------- a listener that sets the counts
\* The notifications of log, each marked with the number of listener
\* deliveries in progress when it is delivered (1: not nested).
AtDepth(log, depth) ==
  [i \in DOMAIN log |-> [on |-> log[i].on, seen |-> log[i].seen, depth |-> depth]]

\* setSubAtomicParticleCount on an atom whose atomUpdated has two listeners,
\* added in this order: one that calls setSubAtomicParticleCount( target )
\* whenever the atom's counts are not target, and one that only reads the
\* atom.  There is no guard in setSubAtomicParticleCount: the call made by
\* the first listener runs at once, inside the emit that invoked it, with its
\* own notifications and its own emit; then the outer emit goes on to the
\* second listener.
setSubAtomicParticleCountReentrant(a, p, n, e, target) ==
  LET outer == setSubAtomicParticleCount(a, p, n, e)
      nested == setSubAtomicParticleCount(outer.atom, target[1], target[2], target[3])
  IN IF BaseCounts(outer.atom) = target
     THEN [atom |-> outer.atom, log |-> AtDepth(outer.log, 1)]
     ELSE [atom |-> nested.atom,
           log |-> AtDepth(outer.log, 1) \o AtDepth(nested.log, 2)
                     \o <<[on |-> "atomUpdated", seen |-> nested.atom, depth |-> 1]>>]

\* atomUpdated.addListener of the listener that sets the counts to target.
CallAddMutatingListener(target) ==
  /\ mutatingListener = <<>>
  /\ mutatingListener' = <<target>>
  /\ events' = <<>>
  /\ lastCall' = [op |-> "addListener", args |-> target,
                  outcome |-> "returned", result |-> <<>>]
  /\ UNCHANGED <<assertionsEnabled, atom, disposeLog, shell, cloud, cloudView,
                 display, cells, highlightedButton>>

CallSetSubAtomicParticleCountReentrant(p, n, e) ==
  /\ LET st == IF mutatingListener = <<>>
               THEN [atom |-> setSubAtomicParticleCount(atom, p, n, e).atom,
                     log |-> AtDepth(setSubAtomicParticleCount(atom, p, n, e).log, 1)]
               ELSE setSubAtomicParticleCountReentrant(atom, p, n, e,
                                                       mutatingListener[1])
     IN /\ atom' = st.atom
        /\ events' = st.log
  /\ lastCall' = [op |-> "setSubAtomicParticleCount", args |-> <<p, n, e>>,
                  outcome |-> "returned", result |-> <<>>]
  /\ UNCHANGED <<assertionsEnabled, disposeLog, shell, cloud, cloudView,
                 display, cells, highlightedButton, mutatingListener>>

InitReentrant ==
  /\ assertionsEnabled \in BOOLEAN
  /\ \E p \in 0..MaxCount, n \in 0..MaxCount, e \in 0..MaxCount :
       /\ atom = NumberAtom(p, n, e)
       /\ lastCall = [op |-> "new NumberAtom", args |-> <<p, n, e>>,
                      outcome |-> "returned", result |-> <<>>]
  /\ disposeLog = <<>>
  /\ events = <<>>
  /\ shell = NoShellCall
  /\ cloud = NewCloud
  /\ NoViews

NextReentrant ==
  \/ \E p \in 0..MaxCount, n \in 0..MaxCount, e \in 0..MaxCount :
       CallAddMutatingListener(<<p, n, e>>)
  \/ \E p \in 0..MaxCount, n \in 0..MaxCount, e \in 0..MaxCount :
       CallSetSubAtomicParticleCountReentrant(p, n, e)

SpecReentrant == InitReentrant /\ [][NextReentrant]_vars

\* ------------------------------------------ ExpandedPeriodicTableNode
\* The proton counts set directly on an atom that has the table on it.
MaxProtonCount == 3

\* The values of interactiveMax the table is constructed with: both sides of
\* each comparison that decides the number of rows.
InteractiveMaxValues == {1, 2, 3, 10, 11}

POPULATED_CELLS ==
  << <<0, 8>>, <<0, 1, 3, 4, 5, 6, 7, 8>>, <<0, 1, 3, 4, 5, 6, 7, 8>> >>

ENABLED_CELL_COLOR == "DISPLAY_PANEL_BACKGROUND_COLOR"

SELECTED_CELL_COLOR == "#FA8072"

\* AtomIdentifier.getNumNeutronsInMostCommonIsotope for the elements the
\* table has buttons for (hydrogen to argon).
getNumNeutronsInMostCommonIsotope(atomicNumber) ==
  <<0, 2, 4, 5, 6, 6, 7, 8, 10, 10, 12, 12, 14, 14, 16, 16, 18, 22>>[atomicNumber]

\* The number of rows of buttons.
ExpandedRows(interactiveMax) ==
  IF interactiveMax > 2 /\ interactiveMax <= 10 THEN 2
  ELSE IF interactiveMax > 10 THEN 3
  ELSE 1

\* A button as created in the loop: atomicNumber is the variable its listener
\* closes over, a copy of elementIndex taken when the button is created.
TextPushButton(elementIndex) ==
  [atomicNumber |-> elementIndex, baseColor |-> ENABLED_CELL_COLOR]

\* _.times( populatedCellsInRow.length, ... ): one button per populated cell,
\* elementIndex going up by one each time.
RECURSIVE AddButtons(_, _, _)
AddButtons(table, elementIndex, times) ==
  IF times = 0 THEN [cells |-> table, elementIndex |-> elementIndex]
  ELSE AddButtons(Append(table, TextPushButton(elementIndex)),
                  elementIndex + 1, times - 1)

\* for ( var i = 0; i < rows; i++ ), rows of POPULATED_CELLS being 0-based
\* in the source.
RECURSIVE AddRows(_, _, _, _)
AddRows(table, elementIndex, i, rows) ==
  IF ~(i < rows) THEN table
  ELSE LET row == AddButtons(table, elementIndex, Len(POPULATED_CELLS[i + 1]))
       IN AddRows(row.cells, row.elementIndex, i + 1, rows)

\* The protonCountProperty listener with the reset of the old button made
\* only when a new button is highlighted.
highlightListener_ResetInRange(table, highlighted, protonCount) ==
  IF protonCount > 0 /\ protonCount <= Len(table)
  THEN [cells |-> [(IF highlighted # 0
                    THEN [table EXCEPT ![highlighted].baseColor = ENABLED_CELL_COLOR]
                    ELSE table)
                   EXCEPT ![protonCount].baseColor = SELECTED_CELL_COLOR],
        highlightedButton |-> protonCount]
  ELSE [cells |-> table, highlightedButton |-> highlighted]

\* The protonCountProperty listener: highlighted is the index (1-based) of
\* highlightedButton in cells, 0 for null.
highlightListener(table, highlighted, protonCount) ==
  LET reset == IF highlighted # 0
               THEN [table EXCEPT ![highlighted].baseColor = ENABLED_CELL_COLOR]
               ELSE table
  IN IF protonCount > 0 /\ protonCount <= Len(reset)
     THEN [cells |-> [reset EXCEPT ![protonCount].baseColor = SELECTED_CELL_COLOR],
           highlightedButton |-> protonCount]
     ELSE [cells |-> reset, highlightedButton |-> highlighted]

\* The constructor: the buttons, then protonCountProperty.link, which calls
\* the listener at once with the proton count.
ExpandedPeriodicTableNode(a, interactiveMax) ==
  highlightListener(AddRows(<<>>, 1, 0, ExpandedRows(interactiveMax)), 0,
                    a.protonCount)

\* The table after the notifications of log from index i on.
RECURSIVE DeliverToTable(_, _, _)
DeliverToTable(t, log, i) ==
  IF i > Len(log) THEN t
  ELSE DeliverToTable(
         IF log[i].on = "protonCount"
         THEN highlightListener(t.cells, t.highlightedButton, log[i].seen.protonCount)
         ELSE t,
         log, i + 1)

\* The listener of a button (and of an interactive periodic-table cell) with
\* the neutron and electron arguments exchanged.
cellListener_ArgumentsExchanged(a, atomicNumber) ==
  setSubAtomicParticleCount(a, atomicNumber, atomicNumber,
                            getNumNeutronsInMostCommonIsotope(atomicNumber))

\* The listener of a button, and the up listener of an interactive
\* periodic-table cell.
cellListener(a, atomicNumber) ==
  setSubAtomicParticleCount(a, atomicNumber,
                            getNumNeutronsInMostCommonIsotope(atomicNumber),
                            atomicNumber)

\* What an operation on the atom does to the atom and to the table.
DeliveredToTable(st) ==
  /\ atom' = st.atom
  /\ events' = st.log
  /\ LET t == DeliverToTable([cells |-> cells, highlightedButton |-> highlightedButton],
                             st.log, 1)
     IN /\ cells' = t.cells
        /\ highlightedButton' = t.highlightedButton
  /\ UNCHANGED <<assertionsEnabled, disposeLog, shell, cloud, cloudView, display,
                 mutatingListener>>

\* protonCountProperty.set called directly.
TableSetProtonCount(v) ==
  /\ DeliveredToTable(basePropertySet(atom, "protonCount", v))
  /\ lastCall' = [op |-> "set", args |-> <<"protonCount", v>>,
                  outcome |-> "returned", result |-> <<>>,
                  before |-> BaseCounts(atom)]

\* The k-th created button is pressed.
PressButton(k) ==
  /\ DeliveredToTable(cellListener(atom, cells[k].atomicNumber))
  /\ lastCall' = [op |-> "press", args |-> <<k>>,
                  outcome |-> "returned", result |-> <<>>,
                  before |-> BaseCounts(atom)]

\* The pointer is released on the periodic-table cell of atomicNumber, a
\* cell constructed with interactive: true.
ReleaseOnCell(atomicNumber) ==
  /\ DeliveredToTable(cellListener(atom, atomicNumber))
  /\ lastCall' = [op |-> "up", args |-> <<atomicNumber>>,
                  outcome |-> "returned", result |-> <<>>,
                  before |-> BaseCounts(atom)]

\* An atom with an ExpandedPeriodicTableNode constructed on it.
InitTable ==
  /\ assertionsEnabled \in BOOLEAN
  /\ \E p \in 0..MaxProtonCount, n \in 0..MaxCount, e \in 0..MaxCount,
        interactiveMax \in InteractiveMaxValues :
       /\ atom = NumberAtom(p, n, e)
       /\ lastCall = [op |-> "new ExpandedPeriodicTableNode",
                      args |-> <<p, n, e, interactiveMax>>,
                      outcome |-> "returned", result |-> <<>>]
       /\ cells = ExpandedPeriodicTableNode(atom, interactiveMax).cells
       /\ highlightedButton =
            ExpandedPeriodicTableNode(atom, interactiveMax).highlightedButton
  /\ disposeLog = <<>>
  /\ events = <<>>
  /\ shell = NoShellCall
  /\ cloud = NewCloud
  /\ cloudView = [scale |-> 1, linked |-> {}, disposed |-> FALSE]
  /\ display = NewDisplay
  /\ mutatingListener = <<>>

NextTable ==
  \/ \E v \in 0..MaxProtonCount : TableSetProtonCount(v)
  \/ \E k \in DOMAIN cells : PressButton(k)
  \/ \E atomicNumber \in DOMAIN cells : ReleaseOnCell(atomicNumber)

SpecTable == InitTable /\ [][NextTable]_vars

\* ---------------------------------------------------------------- claims
DerivedConsistent(a) ==
  /\ a.charge = a.protonCount - a.electronCount
  /\ a.massNumber = a.protonCount + a.neutronCount
  /\ a.particleCount = a.protonCount + a.neutronCount + a.electronCount

IsSetCall == lastCall.op = "setSubAtomicParticleCount"

NonNegative(counts) == \A i \in DOMAIN counts : counts[i] >= 0

\* C1: on a live atom, after construction and after every completed
\* setSubAtomicParticleCount, charge = protons - electrons, massNumber =
\* protons + neutrons and particleCount = protons + neutrons + electrons for
\* the current base counts (for every count value, the non-negative ones
\* included).
C1_DerivedMatchBase == Live => DerivedConsistent(atom)

\* A completed call that changed the charge: (1,1,0) reached from other counts.
C1_Witness ==
  /\ Live /\ IsSetCall
  /\ BaseCounts(atom) = <<1, 1, 0>>
  /\ atom.charge = 1 /\ atom.massNumber = 2 /\ atom.particleCount = 2
  /\ \E i \in DOMAIN events : events[i].on = "charge"

\* C2: every setSubAtomicParticleCount on a live atom returns having emitted
\* atomUpdated exactly once, as the last notification of the call, and the
\* listeners of that emission see all three base counts at the values passed
\* (and the atom as the call leaves it); nothing else emits atomUpdated.
C2_OneEmitAfterAllCounts ==
  /\ (Live /\ IsSetCall) =>
       /\ lastCall.outcome = "returned"
       /\ NumAtomUpdated(events) = 1
       /\ events[Len(events)].on = "atomUpdated"
       /\ BaseCounts(events[Len(events)].seen) = lastCall.args
       /\ events[Len(events)].seen = atom
  /\ NumAtomUpdated(events) > 0 => IsSetCall

\* The second call of the scenario, from (1,1,1) to (1,1,0): the electron
\* count alone changes, charge becomes 1, one atomUpdated at the end.
C2_Witness ==
  /\ Live /\ IsSetCall
  /\ lastCall.args = <<1, 1, 0>>
  /\ Len(events) = 4
  /\ events[1].on = "charge" /\ events[1].seen.charge = 1
  /\ events[2].on = "particleCount" /\ events[2].seen.particleCount = 2
  /\ events[3].on = "electronCount"
  /\ events[4].on = "atomUpdated" /\ events[4].seen.charge = 1

\* C3: during setSubAtomicParticleCount(p, n, e) on a live atom (counts and
\* arguments non-negative), at every notification the derived quantities a
\* listener reads match the base counts it reads, and those base counts are
\* all the pre-call or all the post-call values.
C3_NoTransientState ==
  [][\A p \in CountValues, n \in CountValues, e \in CountValues :
       (Live /\ NonNegative(BaseCounts(atom)) /\ NonNegative(<<p, n, e>>)
          /\ CallSetSubAtomicParticleCount(p, n, e)) =>
         \A i \in DOMAIN events' :
           /\ DerivedConsistent(events'[i].seen)
           /\ BaseCounts(events'[i].seen) \in {BaseCounts(atom), <<p, n, e>>}]_vars

\* C4: setSubAtomicParticleCount called on a live atom (holding non-negative
\* counts) with a negative count fails; the failed call leaves the three base
\* counts and the three derived quantities unchanged and emits nothing.
C4_NegativeCountsRejected ==
  [][\A p \in CountValues, n \in CountValues, e \in CountValues :
       (Live /\ NonNegative(BaseCounts(atom)) /\ ~NonNegative(<<p, n, e>>)
          /\ CallSetSubAtomicParticleCount(p, n, e)) =>
         /\ lastCall'.outcome = "threw"
         /\ atom' = atom
         /\ NumAtomUpdated(events') = 0]_vars

\* C5: the disposed state is entered only by dispose and never left; once
\* disposed, every setSubAtomicParticleCount and every listener registration
\* fails and leaves the counts unchanged.
C5_UseAfterDisposeFails ==
  /\ [][(Live /\ ~Live') => lastCall'.op = "dispose"]_vars
  /\ [][~Live => ~Live']_vars
  /\ [][(~Live /\ NonNegative(BaseCounts(atom))) =>
          /\ \A p \in CountValues, n \in CountValues, e \in CountValues :
               (NonNegative(<<p, n, e>>) /\ CallSetSubAtomicParticleCount(p, n, e)) =>
                 (lastCall'.outcome = "threw" /\ atom' = atom)
          /\ \A target \in Observables :
               CallLink(target) => (lastCall'.outcome = "threw" /\ atom' = atom)]_vars

\* The members torn down by the first k steps of dispose.
TornDown(k) == {disposeLog[i] : i \in 1..k}

\* C6: dispose tears down charge, massNumber and particleCount before any
\* base count and the emitter last; after each step, no derived quantity
\* that is still live depends on a base count already torn down.
C6_DerivedBeforeBase ==
  ~Live =>
    /\ {disposeLog[i] : i \in 1..3} = DerivedNames
    /\ {disposeLog[i] : i \in 4..6} = BaseNames
    /\ Len(disposeLog) = 7 /\ disposeLog[7] = "atomUpdated"
    /\ \A k \in 0..Len(disposeLog) :
         \A d \in DerivedNames \ TornDown(k) : Dependencies(d) \cap TornDown(k) = {}

C6_Witness == ~Live /\ lastCall.op = "dispose" /\ Len(disposeLog) = 7

\* C7: a.equals(b) is true exactly when the three base counts are pairwise
\* equal; equals is reflexive and symmetric, and two atoms with the same mass
\* number and different electron counts are not equal.
C7_EqualsIsBaseCounts ==
  lastCall.op = "equals" =>
    LET other == NumberAtom(lastCall.args[1], lastCall.args[2], lastCall.args[3])
    IN /\ lastCall.result = <<BaseCounts(atom) = BaseCounts(other)>>
       /\ equals(other, atom) = equals(atom, other)
       /\ equals(atom, atom) /\ equals(other, other)
       /\ (atom.massNumber = other.massNumber
             /\ atom.electronCount # other.electronCount) => lastCall.result = <<FALSE>>

\* (1,1,1) against (1,1,0): the same mass number, not equal.
C7_Witness ==
  /\ lastCall.op = "equals"
  /\ BaseCounts(atom) = <<1, 1, 1>> /\ lastCall.args = <<1, 1, 0>>
  /\ atom.massNumber = 2
  /\ lastCall.result = <<FALSE>>

\* The smallest and the largest VALUE of the table (tenths of a picometre).
TableValues == {mapElectronCountToRadius[k] : k \in DOMAIN mapElectronCountToRadius}

RawMin == CHOOSE v \in TableValues : \A w \in TableValues : v <= w

RawMax == CHOOSE v \in TableValues : \A w \in TableValues : w <= v

\* 40 + (table[k] - rawMin) / (rawMax - rawMin) * 15.
CompressedRadius(k) ==
  Rat(minChangedRadius * (RawMax - RawMin)
        + (maxChangedRadius - minChangedRadius) * (mapElectronCountToRadius[k] - RawMin),
      RawMax - RawMin)

ShellCalled(k) == shell.numElectrons = <<k>>

\* C8: for every electron count k in 1..10, getElectronShellDiameter returns
\* 40 + (table[k] - rawMin) / (rawMax - rawMin) * 15 with rawMin = 32 and
\* rawMax = 100.5 the least and greatest table value; so the result lies in
\* [40, 55], is 40 for k = 2, 55 for k = 3 and strictly between for k = 6.
C8_CompressionOverTableValues ==
  /\ RawMin = 320 /\ RawMax = 1005
  /\ \A k \in 1..10 :
       ShellCalled(k) =>
         /\ shell.outcome = "returned"
         /\ RatEq(shell.value, CompressedRadius(k))
         /\ ~RatLess(shell.value, Rat(minChangedRadius, 1))
         /\ ~RatLess(Rat(maxChangedRadius, 1), shell.value)
         /\ (k = 2 => RatEq(shell.value, Rat(minChangedRadius, 1)))
         /\ (k = 3 => RatEq(shell.value, Rat(maxChangedRadius, 1)))
         /\ (k = 6 => RatLess(Rat(minChangedRadius, 1), shell.value)
                      /\ RatLess(shell.value, Rat(maxChangedRadius, 1)))

CloudGiven(k) == cloud.numElectrons = <<k>>

CloudZeroRadius ==
  CloudGiven(0) =>
    /\ cloud.outcome = "returned"
    /\ cloud.radius = Rat(1, 100000)
    /\ RatLess(Rat(0, 1), cloud.radius)
    /\ cloud.fill = "transparent"

C10_FailsAboveTen ==
  (shell.numElectrons # <<>> /\ shell.numElectrons[1] > MAX_ELECTRONS) =>
    shell.outcome = "threw"

\* A change of the atom's counts has completed.
IsCountChange == lastCall.op \in {"setSubAtomicParticleCount", "set"}

\* The cloud has the radius and fill that updateNode computes from k.
CloudSizedFrom(k) ==
  LET sized == updateNode(cloud, k, cloudView.scale, assertionsEnabled)
  IN cloud.radius = sized.radius /\ cloud.fill = sized.fill

\* C11: while the cloud view is in use, once a change of the atom
\* (setSubAtomicParticleCount or a single base count) has completed, the
\* cloud's radius and fill are those computed from the current electronCount
\* (transparent with the near-zero radius iff electronCount = 0), also when
\* electronCount differs from protonCount.
C11_CloudFollowsElectronCount ==
  (IsCountChange /\ ~cloudView.disposed) =>
    /\ CloudSizedFrom(atom.electronCount)
    /\ (cloud.fill = "transparent" /\ cloud.radius = Rat(1, 100000))
         <=> atom.electronCount = 0

\* C12: a listener that calls setSubAtomicParticleCount while it is being
\* invoked by a notification of the atom is disallowed: the nested call fails
\* or is put off until the outer delivery has finished, so that no
\* notification of the atom is delivered nested inside another delivery.
C12_NoNestedMutation ==
  (IsSetCall /\ mutatingListener # <<>>) =>
    \/ lastCall.outcome = "threw"
    \/ \A i \in DOMAIN events : events[i].depth = 1

\* The nodes of one particle type shown in the display's particle layer.
Displayed(particleType) ==
  {node \in display.particleLayer : node.particleType = particleType}

\* C13: the display listens to particleCountProperty only, and still, after
\* construction and after every completed setSubAtomicParticleCount or single
\* base-count change (those that leave the total as it was included), the
\* number of proton nodes shown is protonCount and the number of neutron
\* nodes shown is neutronCount; the display counts agree and are never
\* negative.
C13_DisplaySynchronized ==
  /\ Cardinality(Displayed("proton")) = atom.protonCount
  /\ Cardinality(Displayed("neutron")) = atom.neutronCount
  /\ display.protonDisplayCount = atom.protonCount
  /\ display.neutronDisplayCount = atom.neutronCount
  /\ display.protonDisplayCount >= 0
  /\ display.neutronDisplayCount >= 0

\* A call that moved a particle from the protons to the neutrons: the total
\* is what it was, one proton node was removed and one neutron node added.
C13_Witness ==
  /\ IsSetCall
  /\ lastCall.before[1] + lastCall.before[2] + lastCall.before[3] = atom.particleCount
  /\ lastCall.before[1] > atom.protonCount
  /\ lastCall.before[2] < atom.neutronCount
  /\ Cardinality(Displayed("proton")) = atom.protonCount
  /\ Cardinality(Displayed("neutron")) = atom.neutronCount

\* The buttons that have the selected colour.
Selected == {k \in DOMAIN cells : cells[k].baseColor = SELECTED_CELL_COLOR}

\* C14: in ExpandedPeriodicTableNode, after construction and after any
\* sequence of proton-count changes, at most one button has the selected
\* colour; it is cells[protonCount - 1] (0-based) exactly when
\* 1 <= protonCount <= cells.length, and when protonCount is 0 or exceeds
\* cells.length no button has the selected colour.
C14_OneButtonSelected ==
  /\ Cardinality(Selected) <= 1
  /\ (1 <= atom.protonCount /\ atom.protonCount <= Len(cells))
       => Selected = {atom.protonCount}
  /\ (atom.protonCount = 0 \/ atom.protonCount > Len(cells)) => Selected = {}

\* The proton count was moved from a button's element to a count beyond the
\* last button; the old button has been reset.
C14_Witness ==
  /\ lastCall.op = "set"
  /\ 1 <= lastCall.before[1] /\ lastCall.before[1] <= Len(cells)
  /\ atom.protonCount > Len(cells)
  /\ highlightedButton = lastCall.before[1]
  /\ Selected = {}

\* The atom is the neutral atom of element Z with the neutron count of Z's
\* most common isotope, and the operation emitted atomUpdated exactly once.
NeutralAtomOf(Z) ==
  /\ atom.protonCount = Z
  /\ atom.electronCount = Z
  /\ atom.charge = 0
  /\ atom.neutronCount = getNumNeutronsInMostCommonIsotope(Z)
  /\ NumAtomUpdated(events) = 1

\* C15: pressing the k-th created expanded-table button, or releasing on the
\* interactive periodic-table cell of atomic number Z, from any prior atom
\* state, leaves the atom neutral with protonCount = electronCount = Z and
\* neutronCount the most common isotope's neutron count for Z, and emits
\* atomUpdated exactly once; after a press the only button with the selected
\* colour is the pressed one; the Z bound to the k-th created button is k.
C15_PressSetsNeutralAtom ==
  /\ \A k \in DOMAIN cells : cells[k].atomicNumber = k
  /\ lastCall.op = "press" =>
       (NeutralAtomOf(lastCall.args[1]) /\ Selected = {lastCall.args[1]})
  /\ lastCall.op = "up" => NeutralAtomOf(lastCall.args[1])

\* A button of the second row pressed on an atom that was an ion of another
\* element.
C15_Witness ==
  /\ lastCall.op = "press"
  /\ lastCall.args[1] > Len(POPULATED_CELLS[1])
  /\ lastCall.before[1] # lastCall.before[3]
  /\ lastCall.before[1] # lastCall.args[1]
  /\ atom.protonCount = lastCall.args[1]
  /\ Selected = {lastCall.args[1]}

\* C16: after IsotopeElectronCloudView.dispose() the view holds no listener
\* on the atom: every listener it registered on a property of the NumberAtom
\* has been removed, and no later change of the atom's counts alters the
\* view's radius or fill.
C16_DisposedViewDetached ==
  [][cloudView.disposed =>
       /\ cloudView.linked = {}
       /\ cloud'.radius = cloud.radius
       /\ cloud'.fill = cloud.fill]_vars

\* After the dispose the proton count was changed and the cloud kept the size
\* it had: it is no longer the size for the proton count.
C16_Witness ==
  /\ cloudView.disposed
  /\ IsCountChange
  /\ lastCall.before[1] # atom.protonCount
  /\ CloudSizedFrom(lastCall.before[1])
  /\ ~CloudSizedFrom(atom.protonCount)

====
